---- MODULE Spec2Model ----
(***************************************************************************)
(* grep-directory: a command-line substring search over a file tree.       *)
(* One behaviour of this module is one process invocation: main() reads    *)
(* the raw argument list, Config::new parses and validates it, run()       *)
(* enumerates candidate files and searches them one by one.                *)
(*                                                                         *)
(* Strings (argument tokens, paths, file contents) are sequences of        *)
(* one-character strings, so starts_with, concatenation, ASCII lowering    *)
(* and substring containment are computed as the code computes them.       *)
(***************************************************************************)
EXTENDS Integers, Sequences, FiniteSets, TLC

\* Largest number of user-supplied tokens after the program name.
MaxArgs == 4

-----------------------------------------------------------------------------
\* String helpers (Rust std String / str operations used by the code).

RECURSIVE concat(_)
\* Iterator::collect::<String>(): the tokens joined with no separator.
concat(tokens) ==
    IF tokens = <<>> THEN <<>> ELSE Head(tokens) \o concat(Tail(tokens))

\* str::starts_with("-")
starts_with_dash(s) == Len(s) > 0 /\ s[1] = "-"

UpperCase == <<"A","B","C","D","E","F","G","H","I","J","K","L","M",
               "N","O","P","Q","R","S","T","U","V","W","X","Y","Z">>
LowerCase == <<"a","b","c","d","e","f","g","h","i","j","k","l","m",
               "n","o","p","q","r","s","t","u","v","w","x","y","z">>

\* char::to_ascii_lowercase: only 'A'..'Z' change.
char_to_ascii_lowercase(c) ==
    IF \E i \in 1..26 : UpperCase[i] = c
    THEN LowerCase[CHOOSE i \in 1..26 : UpperCase[i] = c]
    ELSE c

\* str::to_ascii_lowercase
to_ascii_lowercase(s) == [i \in 1..Len(s) |-> char_to_ascii_lowercase(s[i])]

\* str::contains(&str): literal substring containment.
contains(haystack, needle) ==
    \E i \in 0..(Len(haystack) - Len(needle)) :
        SubSeq(haystack, i + 1, i + Len(needle)) = needle

\* slice::contains for the option array.
array_contains(arr, x) == \E i \in 1..Len(arr) : arr[i] = x

-----------------------------------------------------------------------------
\* The option spellings.

OPT_c                == <<"-","c">>
OPT_case_insensitive == <<"-","-","c","a","s","e","-","i","n","s","e","n","s","i","t","i","v","e">>
OPT_r                == <<"-","r">>
OPT_recursive        == <<"-","-","r","e","c","u","r","s","i","v","e">>
OPT_v                == <<"-","v">>
OPT_verbose          == <<"-","-","v","e","r","b","o","s","e">>
OPT_h                == <<"-","h">>
OPT_help             == <<"-","-","h","e","l","p">>
TOK_help             == <<"h","e","l","p">>

VALID_OPTIONS ==
    << OPT_c, OPT_case_insensitive,
       OPT_r, OPT_recursive,
       OPT_v, OPT_verbose,
       OPT_h, OPT_help, TOK_help >>

-----------------------------------------------------------------------------
\* The file tree the process runs against.
\*
\*   d/            directory, listed in the order a, s, b
\*   d/a           "a hi"
\*   d/s/          directory, listed in the order c, u, t
\*   d/s/c         "hi"
\*   d/s/u/        directory, empty
\*   d/s/t/        directory
\*   d/s/t/e       "Hi!"
\*   d/b           "HI"
\*   f             "hi"
\* The path n does not exist.

\* Path::join / DirEntry::path
join(dir, name) == dir \o <<"/">> \o name

Dir(names)    == [kind |-> "dir",  entries |-> names, content |-> <<>>]
File(text)    == [kind |-> "file", entries |-> <<>>,  content |-> text]

P_d   == <<"d">>
P_f   == <<"f">>
P_n   == <<"n">>
P_da  == join(P_d, <<"a">>)
P_ds  == join(P_d, <<"s">>)
P_db  == join(P_d, <<"b">>)
P_dsc == join(P_ds, <<"c">>)
P_dsu == join(P_ds, <<"u">>)
P_dst == join(P_ds, <<"t">>)
P_dste == join(P_dst, <<"e">>)

FS ==
    (P_d    :> Dir(<< <<"a">>, <<"s">>, <<"b">> >>)) @@
    (P_da   :> File(<<"a"," ","h","i">>)) @@
    (P_ds   :> Dir(<< <<"c">>, <<"u">>, <<"t">> >>)) @@
    (P_dsu  :> Dir(<<>>)) @@
    (P_dsc  :> File(<<"h","i">>)) @@
    (P_dst  :> Dir(<< <<"e">> >>)) @@
    (P_dste :> File(<<"H","i","!">>)) @@
    (P_db   :> File(<<"H","I">>)) @@
    (P_f    :> File(<<"h","i">>))

\* Path::exists
exists(p) == p \in DOMAIN FS
\* Path::is_dir
is_dir(p) == p \in DOMAIN FS /\ FS[p].kind = "dir"

-----------------------------------------------------------------------------
\* Raw argument lists supplied by the host: a program name followed by up to
\* MaxArgs tokens.

ProgNames == { <<"g">>, <<"-","g">> }

ArgTokens ==
    { OPT_c, OPT_case_insensitive, OPT_r, OPT_v, OPT_h, OPT_help, TOK_help,
      <<"-","x">>, P_d, P_f, P_n, <<"h","i">>, <<"H","I">>, <<>> }


-----------------------------------------------------------------------------
VARIABLES
    args,           \* env::args(): the raw argument list
    pc,             \* the process's position
    options,        \* parse_arguments: the option stream
    path,           \* parse_arguments: the root path
    query,          \* parse_arguments: the query
    err,            \* the Err message of Config::new ("" when none)
    config,         \* the Config
    paths_to_grep,  \* run: the candidate list
    idx,            \* run: position of the for_each over paths_to_grep
    output,         \* lines written to stdout and stderr, in order
    fsLog,          \* file-system calls made, in order, with their outcome
    exitCode        \* process exit code (-1 while running)

vars == << args, pc, options, path, query, err, config, paths_to_grep, idx,
           output, fsLog, exitCode >>

-----------------------------------------------------------------------------
\* Output lines.  fmt is the format string of the println!/eprintln!, msg an
\* error description, arg the path or query interpolated into it.

Out(stream, fmt, msg, arg) ==
    [stream |-> stream, fmt |-> fmt, msg |-> msg, arg |-> arg]

\* help(): the static usage text, written to stdout.
help == << Out("stdout", "<help text>", "", <<>>) >>

NoError == ""
MissingPath   == "No/invalid path given"
MissingQuery  == "No/invalid query given"
InvalidOption == "One or more invalid options."
PathNotFound  == "Invalid path."

FsCall(op, p, ok) == [op |-> op, path |-> p, ok |-> ok]

-----------------------------------------------------------------------------
\* Config::new

\* The Config that Config::new starts from.
ConfigDefault ==
    [ query |-> <<>>, path |-> <<>>, case_sensitive |-> FALSE,
      filter |-> FALSE, filter_for |-> <<>>,
      recurse |-> FALSE, verbose |-> FALSE, help |-> FALSE ]

\* Config::parse_arguments.  The option stream is filtered from the whole
\* list; the positional stream is filtered from the whole list and its first
\* element is then skipped.
parse_arguments(a) ==
    LET opts       == SelectSeq(a, starts_with_dash)
        positional == SelectSeq(a, LAMBDA s : ~starts_with_dash(s))
        after_skip == IF positional = <<>> THEN <<>> ELSE Tail(positional)
        p          == IF after_skip = <<>> THEN <<>> ELSE Head(after_skip)
        q          == IF after_skip = <<>> THEN <<>> ELSE concat(Tail(after_skip))
    IN  [ options |-> opts, path |-> p, query |-> q,
          err |-> IF p = <<>> THEN MissingPath
                  ELSE IF q = <<>> THEN MissingQuery
                  ELSE NoError ]

\* Variant: the path is checked before the options.
validate_path_first(opts, p) ==
    IF ~exists(p)
    THEN [err |-> PathNotFound, fs |-> << FsCall("exists", p, FALSE) >>]
    ELSE IF \E i \in 1..Len(opts) : ~array_contains(VALID_OPTIONS, opts[i])
    THEN [err |-> InvalidOption, fs |-> << FsCall("exists", p, TRUE) >>]
    ELSE [err |-> NoError, fs |-> << FsCall("exists", p, TRUE) >>]

\* Config::new, "ensure everything is valid": the option check, then the
\* path-existence check.  fs is the file-system calls made.
validate(opts, p) ==
    IF \E i \in 1..Len(opts) : ~array_contains(VALID_OPTIONS, opts[i])
    THEN [err |-> InvalidOption, fs |-> <<>>]
    ELSE IF ~exists(p)
    THEN [err |-> PathNotFound, fs |-> << FsCall("exists", p, FALSE) >>]
    ELSE [err |-> NoError, fs |-> << FsCall("exists", p, TRUE) >>]

\* One arm of the match in the for_each over the options.
apply_option(cfg, option) ==
    IF option \in {OPT_c, OPT_case_insensitive} THEN [cfg EXCEPT !.case_sensitive = TRUE]
    ELSE IF option \in {OPT_r, OPT_recursive}   THEN [cfg EXCEPT !.recurse = TRUE]
    ELSE IF option \in {OPT_v, OPT_verbose}     THEN [cfg EXCEPT !.verbose = TRUE]
    ELSE IF option \in {OPT_h, OPT_help}        THEN [cfg EXCEPT !.help = TRUE]
    ELSE cfg

RECURSIVE apply_options(_, _)
\* options.iter().for_each(...)
apply_options(cfg, opts) ==
    IF opts = <<>> THEN cfg
    ELSE apply_options(apply_option(cfg, Head(opts)), Tail(opts))

-----------------------------------------------------------------------------
Init ==
    /\ \E n \in 0..MaxArgs : \E p \in ProgNames : \E rest \in [1..n -> ArgTokens] :
           args = <<p>> \o rest
    /\ pc = "ParsingArguments"
    /\ options = <<>>
    /\ path = <<>>
    /\ query = <<>>
    /\ err = NoError
    /\ config = ConfigDefault
    /\ paths_to_grep = <<>>
    /\ idx = 0
    /\ output = <<>>
    /\ fsLog = <<>>
    /\ exitCode = -1

\* Config::new, first half: the call of parse_arguments and its early return.
ParseArguments ==
    /\ pc = "ParsingArguments"
    /\ LET r == parse_arguments(args) IN
        /\ options' = r.options
        /\ path' = r.path
        /\ query' = r.query
        /\ err' = r.err
        /\ pc' = IF r.err = NoError THEN "ValidatingConfiguration" ELSE "ConfigError"
    /\ UNCHANGED << args, config, paths_to_grep, idx, output, fsLog, exitCode >>

\* Config::new, second half: validation, then the Config is filled in.
ValidateConfiguration ==
    /\ pc = "ValidatingConfiguration"
    /\ LET v == validate(options, path) IN
        /\ err' = v.err
        /\ fsLog' = fsLog \o v.fs
        /\ IF v.err = NoError
           THEN /\ config' = apply_options(
                                [config EXCEPT !.path = path, !.query = query],
                                options)
                /\ pc' = "Configured"
           ELSE /\ config' = config
                /\ pc' = "ConfigError"
    /\ UNCHANGED << args, options, path, query, paths_to_grep, idx, output, exitCode >>

\* Variant: the closure reports the problem but does not stop the process.
MainConfigError_no_exit ==
    /\ pc = "ConfigError"
    /\ output' = output \o << Out("stderr", "Problem parsing arguments: {}", err, <<>>) >>
                        \o help
    /\ pc' = "Configured"
    /\ UNCHANGED << args, options, path, query, err, config, paths_to_grep, idx,
                    fsLog, exitCode >>

\* main: the unwrap_or_else closure run when Config::new returned Err.
MainConfigError ==
    /\ pc = "ConfigError"
    /\ output' = output \o << Out("stderr", "Problem parsing arguments: {}", err, <<>>) >>
                        \o help
    /\ exitCode' = 1
    /\ pc' = "Failed"
    /\ UNCHANGED << args, options, path, query, err, config, paths_to_grep, idx, fsLog >>

\* main: the two banner lines printed before run is called.
MainBanner ==
    /\ pc = "Configured"
    /\ output' = output \o << Out("stdout", "Searching for {}", "", config.query),
                              Out("stdout", "In Path {}", "", config.path) >>
    /\ pc' = "Running"
    /\ UNCHANGED << args, options, path, query, err, config, paths_to_grep, idx,
                    fsLog, exitCode >>

\* run: "if user asked for help, give instructions"; run returns Ok and main
\* returns.
RunHelp ==
    /\ pc = "Running"
    /\ config.help
    /\ output' = output \o help
    /\ exitCode' = 0
    /\ pc' = "Done"
    /\ UNCHANGED << args, options, path, query, err, config, paths_to_grep, idx, fsLog >>

-----------------------------------------------------------------------------
\* File enumeration.
\*
\* fs::read_dir(path) and each entry of its iterator are Results the code
\* unwraps; `fault` names the one call that returns Err in this run (NoFault
\* when none does).  The process panics at the first Err it meets, so a run
\* with several failing calls behaves like the run with only the first.

NoFault == [op |-> "none", path |-> <<>>]

Faults ==
    {NoFault}
    \cup { [op |-> "read_dir", path |-> p] : p \in {q \in DOMAIN FS : is_dir(q)} }
    \cup { [op |-> "dir_entry", path |-> p] : p \in DOMAIN FS \ {P_d, P_f} }

\* The accumulator threaded through the traversal: the Vec being filled, the
\* read_dir calls made, and whether an unwrap has panicked (and where).
Walk(vec, calls) == [panicked |-> FALSE, at |-> <<>>, vec |-> vec, calls |-> calls]

Panic(acc, p) == [acc EXCEPT !.panicked = TRUE, !.at = p]

RECURSIVE list_files_from(_, _, _, _)
\* list_files: the for loop over the entries of dir, from entry i on.
list_files_from(acc, dir, i, fault) ==
    IF acc.panicked \/ i > Len(FS[dir].entries) THEN acc
    ELSE LET full_path == join(dir, FS[dir].entries[i]) IN
         IF fault = [op |-> "dir_entry", path |-> full_path]
         THEN Panic(acc, full_path)
         ELSE IF ~is_dir(full_path)
         THEN list_files_from(
                  [acc EXCEPT !.vec = Append(@, full_path)], dir, i + 1, fault)
         ELSE list_files_from(acc, dir, i + 1, fault)

\* list_files(path)
list_files(p, fault) ==
    IF is_dir(p)
    THEN IF fault = [op |-> "read_dir", path |-> p]
         THEN Panic(Walk(<<>>, << FsCall("read_dir", p, FALSE) >>), p)
         ELSE list_files_from(Walk(<<>>, << FsCall("read_dir", p, TRUE) >>), p, 1, fault)
    ELSE Walk(<<>>, <<>>)

RECURSIVE _list_files_recurse(_, _, _), list_files_recurse_from(_, _, _, _)
\* Variant of the loop of _list_files_recurse: subdirectories are skipped,
\* not descended into.
list_files_recurse_from_no_descent(acc, dir, i, fault) ==
    IF acc.panicked \/ i > Len(FS[dir].entries) THEN acc
    ELSE LET full_path == join(dir, FS[dir].entries[i]) IN
         IF fault = [op |-> "dir_entry", path |-> full_path]
         THEN Panic(acc, full_path)
         ELSE IF is_dir(full_path)
         THEN list_files_recurse_from(acc, dir, i + 1, fault)
         ELSE list_files_recurse_from(
                  [acc EXCEPT !.vec = Append(@, full_path)], dir, i + 1, fault)

\* _list_files_recurse: the for loop over the entries of dir, from entry i on.
list_files_recurse_from(acc, dir, i, fault) ==
    IF acc.panicked \/ i > Len(FS[dir].entries) THEN acc
    ELSE LET full_path == join(dir, FS[dir].entries[i]) IN
         IF fault = [op |-> "dir_entry", path |-> full_path]
         THEN Panic(acc, full_path)
         ELSE IF is_dir(full_path)
         THEN list_files_recurse_from(
                  _list_files_recurse(acc, full_path, fault), dir, i + 1, fault)
         ELSE list_files_recurse_from(
                  [acc EXCEPT !.vec = Append(@, full_path)], dir, i + 1, fault)

\* _list_files_recurse(vec, path)
_list_files_recurse(acc, p, fault) ==
    IF acc.panicked THEN acc
    ELSE IF is_dir(p)
    THEN IF fault = [op |-> "read_dir", path |-> p]
         THEN Panic([acc EXCEPT !.calls = Append(@, FsCall("read_dir", p, FALSE))], p)
         ELSE list_files_recurse_from(
                  [acc EXCEPT !.calls = Append(@, FsCall("read_dir", p, TRUE))],
                  p, 1, fault)
    ELSE acc

\* list_files_recurse(path)
list_files_recurse(p, fault) == _list_files_recurse(Walk(<<>>, <<>>), p, fault)

\* run, "fill paths_to_grep based on what config.path points to, and the
\* value of config.recurse".
enumerate(base_path, recurse, fault) ==
    IF ~is_dir(base_path) THEN Walk(<< base_path >>, <<>>)
    ELSE IF recurse THEN list_files_recurse(base_path, fault)
    ELSE list_files(base_path, fault)

-----------------------------------------------------------------------------
\* Search.

\* fs::read_to_string(path): Ok(contents) or Err.
read_to_string(p, ok) ==
    IF ok THEN [ok |-> TRUE, val |-> FS[p].content] ELSE [ok |-> FALSE, val |-> <<>>]

\* search(query, path), given the outcome of its read.
search(q, rd) ==
    IF rd.ok THEN [ok |-> TRUE, val |-> contains(rd.val, q)]
    ELSE [ok |-> FALSE, val |-> FALSE]

\* search_case_insensitive(query, path), given the outcome of its read.
search_case_insensitive(q, rd) ==
    IF rd.ok
    THEN [ok |-> TRUE,
          val |-> contains(to_ascii_lowercase(rd.val), to_ascii_lowercase(q))]
    ELSE [ok |-> FALSE, val |-> FALSE]

-----------------------------------------------------------------------------
\* run, after the help check.

\* The candidate list is filled.  An Err from read_dir or from a directory
\* entry is unwrapped: the thread panics and the process ends with the
\* runtime's panic status, 101 when the build unwinds and 134 (SIGABRT) when
\* it is built with panic = "abort".
RunEnumerate ==
    /\ pc = "Running"
    /\ ~config.help
    /\ \E fault \in Faults :
        LET r == enumerate(config.path, config.recurse, fault) IN
        /\ fsLog' = fsLog \o << FsCall("is_dir", config.path, is_dir(config.path)) >>
                          \o r.calls
        /\ IF r.panicked
           THEN /\ output' = output \o
                      << Out("stderr", "thread main panicked at {}",
                             "called Result::unwrap() on an Err value", r.at) >>
                /\ exitCode' \in {101, 134}
                /\ pc' = "Panicked"
                /\ UNCHANGED paths_to_grep
           ELSE /\ paths_to_grep' = r.vec
                /\ pc' = "Enumerated"
                /\ UNCHANGED << output, exitCode >>
    /\ UNCHANGED << args, options, path, query, err, config, idx >>

\* Variant: the header line is not written.
RunPrintHeader_no_header ==
    /\ pc = "Enumerated"
    /\ idx' = 1
    /\ pc' = "Searching"
    /\ UNCHANGED << args, options, path, query, err, config, paths_to_grep,
                    output, fsLog, exitCode >>

\* println!("Files containing query: "), then the for_each starts.
RunPrintHeader ==
    /\ pc = "Enumerated"
    /\ output' = output \o << Out("stdout", "Files containing query: ", "", <<>>) >>
    /\ idx' = 1
    /\ pc' = "Searching"
    /\ UNCHANGED << args, options, path, query, err, config, paths_to_grep,
                    fsLog, exitCode >>

\* Variant: the error line is written whether or not verbose is set.
search_lines_always_log(cfg, p, res) ==
    (IF ~res.ok
     THEN << Out("stderr", "Error searching {:?}: {}", "io error", p) >>
     ELSE <<>>)
    \o
    (IF res.ok /\ res.val THEN << Out("stdout", "\t{}", "", p) >> ELSE <<>>)

\* Lines written by one iteration of the for_each, given the Result of the
\* search: the error line when verbose, the match line when the file matches.
search_lines(cfg, p, res) ==
    (IF ~res.ok /\ cfg.verbose
     THEN << Out("stderr", "Error searching {:?}: {}", "io error", p) >>
     ELSE <<>>)
    \o
    (IF res.ok /\ res.val THEN << Out("stdout", "\t{}", "", p) >> ELSE <<>>)

\* One iteration of paths_to_grep.iter().for_each(...).
RunSearchFile ==
    /\ pc = "Searching"
    /\ idx <= Len(paths_to_grep)
    /\ \E ok \in BOOLEAN :
        LET p   == paths_to_grep[idx]
            rd  == read_to_string(p, ok)
            res == IF config.case_sensitive
                   THEN search(config.query, rd)
                   ELSE search_case_insensitive(config.query, rd)
        IN  /\ fsLog' = Append(fsLog, FsCall("read_to_string", p, ok))
            /\ output' = output \o search_lines(config, p, res)
    /\ idx' = idx + 1
    /\ UNCHANGED << args, pc, options, path, query, err, config, paths_to_grep, exitCode >>

\* The for_each is exhausted: run returns Ok(()) and main returns.
RunReturn ==
    /\ pc = "Searching"
    /\ idx > Len(paths_to_grep)
    /\ exitCode' = 0
    /\ pc' = "Done"
    /\ UNCHANGED << args, options, path, query, err, config, paths_to_grep, idx,
                    output, fsLog >>

Next ==
    \/ ParseArguments
    \/ ValidateConfiguration
    \/ MainConfigError
    \/ MainBanner
    \/ RunHelp
    \/ RunEnumerate
    \/ RunPrintHeader
    \/ RunSearchFile
    \/ RunReturn

Spec == Init /\ [][Next]_vars

-----------------------------------------------------------------------------
\* Vocabulary of the properties.

Stdout == SelectSeq(output, LAMBDA l : l.stream = "stdout")
Stderr == SelectSeq(output, LAMBDA l : l.stream = "stderr")

Terminated == exitCode # -1

\* Config::new has returned (Ok or Err).
ConfigNewReturned == pc \notin {"ParsingArguments", "ValidatingConfiguration"}

\* Config::new has returned Ok: config is the Configuration of the run.
ConfigBuilt ==
    pc \in {"Configured", "Running", "Enumerated", "Searching", "Done", "Panicked"}

\* run has filled the candidate list.
CandidatesReady ==
    pc \in {"Enumerated", "Searching"} \/ (pc = "Done" /\ ~config.help)

HeaderLine   == Out("stdout", "Files containing query: ", "", <<>>)
MatchLine(p) == Out("stdout", "\t{}", "", p)
IsMatchLine(l) == l.stream = "stdout" /\ l.fmt = "\t{}"
IsErrorLine(l) == l.stream = "stderr" /\ l.fmt = "Error searching {:?}: {}"
IsHelpText(l)  == l.stream = "stdout" /\ l.fmt = "<help text>"
IsBanner(l)    == l.stream = "stdout" /\ l.fmt \in {"Searching for {}", "In Path {}"}

\* The read_to_string calls made so far, in order.
Reads == SelectSeq(fsLog, LAMBDA c : c.op = "read_to_string")

ListedOrRead ==
    \E k \in 1..Len(fsLog) : fsLog[k].op \in {"read_dir", "read_to_string"}

\* The paths carried by a sequence of output lines / file-system calls.
ArgsOf(lines)  == [i \in 1..Len(lines) |-> lines[i].arg]
PathsOf(calls) == [i \in 1..Len(calls) |-> calls[i].path]

\* Literal containment of q in text under a case mode.
Matches(text, q, case_sensitive) ==
    IF case_sensitive THEN contains(text, q)
    ELSE contains(to_ascii_lowercase(text), to_ascii_lowercase(q))

\* The reads that succeeded on a file containing q under the given mode.
MatchingReads(q, case_sensitive) ==
    SelectSeq(Reads, LAMBDA c : c.ok /\ Matches(FS[c.path].content, q, case_sensitive))

UserTokens == Tail(args)

\* The host passed a program name without a leading dash.
OrdinaryProgramName == ~starts_with_dash(args[1])

HasToken(tokens, set) == \E i \in 1..Len(tokens) : tokens[i] \in set

UnknownOption(s) == starts_with_dash(s) /\ ~array_contains(VALID_OPTIONS, s)

-----------------------------------------------------------------------------
\* C1: caseSensitive is true by default and false exactly when -c or
\* --case-insensitive is given; a finished search reports a readable file iff
\* its content contains the query exactly (no flag) or after ASCII-lowering
\* both (flag given).  Stated for an ordinary program name.
C1_CaseSensitiveUnlessFlag ==
    LET flag == HasToken(UserTokens, {OPT_c, OPT_case_insensitive}) IN
    OrdinaryProgramName =>
        /\ ConfigBuilt => (config.case_sensitive = ~flag)
        /\ (pc = "Done" /\ ~config.help) =>
               ArgsOf(SelectSeq(Stdout, IsMatchLine))
                   = PathsOf(MatchingReads(config.query, ~flag))

\* C2: with -h or --help among the user tokens the process ends by printing
\* the help text with exit code 0, whatever else is (or is not) given, and
\* never lists a directory or reads a file.  Stated for an ordinary program
\* name.
C2_HelpFlagShortCircuits ==
    (OrdinaryProgramName /\ HasToken(UserTokens, {OPT_h, OPT_help})) =>
        /\ pc \notin {"ConfigError", "Failed", "Enumerated", "Searching", "Panicked"}
        /\ ~ListedOrRead
        /\ Terminated =>
              /\ exitCode = 0
              /\ \E k \in 1..Len(output) : IsHelpText(output[k])

\* C3: a bare `help` token after the program name sets help, is never taken
\* as the root path or as part of the query, and the run prints the help
\* text instead of searching.  Stated for an ordinary program name.
C3_BareHelpRecognized ==
    (OrdinaryProgramName /\ HasToken(UserTokens, {TOK_help}) /\ pc # "ParsingArguments") =>
        /\ path # TOK_help
        /\ ~contains(query, TOK_help)
        /\ ConfigBuilt => config.help
        /\ pc \notin {"Enumerated", "Searching", "Panicked"}

\* C4 as stated: whenever the raw argument list holds a dash-leading token
\* outside the catalog, Config::new returns the InvalidOption error, also
\* when the path or the query is missing.  Stated for an ordinary program
\* name.
C4_InvalidOptionAlways ==
    ( /\ OrdinaryProgramName
      /\ \E i \in 1..Len(args) : UnknownOption(args[i])
      /\ ConfigNewReturned )
        => err = InvalidOption

\* C4 amended: whenever the raw argument list holds a dash-leading token
\* outside the catalog and parse_arguments found a non-empty path and a
\* non-empty query, Config::new returns the InvalidOption error, whether or
\* not the path exists.
C4_InvalidOptionAfterParse ==
    ( /\ \E i \in 1..Len(args) : UnknownOption(args[i])
      /\ ConfigNewReturned
      /\ path # <<>>
      /\ query # <<>> )
        => err = InvalidOption

C4_Witness ==
    /\ pc = "Failed"
    /\ args[1] = <<"g">>
    /\ \E i \in 2..Len(args) : UnknownOption(args[i])
    /\ ~exists(path)
    /\ err = InvalidOption

\* The partition of args[1..]: the program name dropped by position, the
\* rest split by "starts with a dash".
PartitionAfterProgramName(a) ==
    LET rest       == Tail(a)
        positional == SelectSeq(rest, LAMBDA s : ~starts_with_dash(s))
    IN  [ options |-> SelectSeq(rest, starts_with_dash),
          path    |-> IF positional = <<>> THEN <<>> ELSE Head(positional),
          query   |-> IF positional = <<>> THEN <<>> ELSE concat(Tail(positional)) ]

\* C5: parse_arguments leaves args[0] out of both streams whatever its
\* spelling: the options are the dash-leading tokens of args[1..] in order,
\* the path is the first other token of args[1..], the query is the
\* concatenation of the remaining other tokens.
C5_ProgramNameExcluded ==
    pc # "ParsingArguments" =>
        LET r == PartitionAfterProgramName(args) IN
        /\ options = r.options
        /\ path = r.path
        /\ query = r.query

\* C6: every Err of Config::new (missing path, missing query, invalid option,
\* path not found) takes the process to Failed and nowhere else: stderr gets
\* the one line "Problem parsing arguments: <message>", the help text follows,
\* the exit code is 1, no banner line is written and no directory is listed
\* or file read; a missing path or query is reported before any file-system
\* call at all.
C6_ArgumentFailureGoesToFailed ==
    /\ (err # NoError) <=> (pc \in {"ConfigError", "Failed"})
    /\ pc # "ParsingArguments" =>
          /\ (path = <<>>) <=> (err = MissingPath)
          /\ (path # <<>> /\ query = <<>>) <=> (err = MissingQuery)
    /\ (ConfigNewReturned /\ path # <<>> /\ query # <<>>) =>
          /\ (\E i \in 1..Len(options) : UnknownOption(options[i]))
                <=> (err = InvalidOption)
          /\ ((\A i \in 1..Len(options) : ~UnknownOption(options[i])) /\ ~exists(path))
                <=> (err = PathNotFound)
    /\ pc \in {"ConfigError", "Failed"} =>
          /\ \A k \in 1..Len(output) : ~IsBanner(output[k])
          /\ \A k \in 1..Len(fsLog) : fsLog[k].op = "exists"
          /\ err \in {MissingPath, MissingQuery} => fsLog = <<>>
    /\ pc = "ConfigError" => (output = <<>> /\ exitCode = -1)
    /\ pc = "Failed" =>
          /\ output = << Out("stderr", "Problem parsing arguments: {}", err, <<>>) >>
                          \o help
          /\ exitCode = 1
    /\ exitCode = 1 => pc = "Failed"

C6_Witness ==
    /\ pc = "Failed"
    /\ err = MissingQuery
    /\ exists(path)
    /\ fsLog = <<>>

\* C7: a finished non-help run has read every candidate once, in order;
\* whichever reads failed, it reports exactly the candidates that were read
\* and contain the query (under the run's case mode), ends with exit code 0,
\* and has written one error line per failed read, naming the file, when
\* verbose is set and no error line when it is not.
C7_SearchErrorsIsolated ==
    (pc = "Done" /\ ~config.help) =>
        LET failed == SelectSeq(Reads, LAMBDA c : ~c.ok) IN
        /\ PathsOf(Reads) = paths_to_grep
        /\ ArgsOf(SelectSeq(Stdout, IsMatchLine))
               = PathsOf(MatchingReads(config.query, config.case_sensitive))
        /\ Stderr = SelectSeq(Stderr, IsErrorLine)
        /\ ArgsOf(Stderr) = IF config.verbose THEN PathsOf(failed) ELSE <<>>
        /\ exitCode = 0

C7_Witness ==
    /\ pc = "Done"
    /\ ~config.help
    /\ config.verbose
    /\ Len(paths_to_grep) >= 2
    /\ \E k \in 1..Len(Reads) : ~Reads[k].ok
    /\ \E k \in 1..Len(output) : IsMatchLine(output[k])

\* p lies below the directory root.
IsUnder(root, p) ==
    /\ Len(p) > Len(root) + 1
    /\ SubSeq(p, 1, Len(root) + 1) = root \o <<"/">>

\* p is an entry of the directory root itself.
IsChildOf(root, p) ==
    /\ IsUnder(root, p)
    /\ \A k \in (Len(root) + 2)..Len(p) : p[k] # "/"

\* C8: the candidate list run computes is [root] when root is not a
\* directory, whatever recurse is; the non-directory children of root when
\* root is a directory and recurse is off; every non-directory below root,
\* each once and no directory, when recurse is on.
C8_CandidateListIsThreeCaseEnumeration ==
    CandidatesReady =>
        LET root  == config.path
            found == {paths_to_grep[i] : i \in 1..Len(paths_to_grep)}
        IN  /\ Cardinality(found) = Len(paths_to_grep)
            /\ IF ~is_dir(root) THEN paths_to_grep = << root >>
               ELSE IF ~config.recurse
               THEN found = {p \in DOMAIN FS : ~is_dir(p) /\ IsChildOf(root, p)}
               ELSE found = {p \in DOMAIN FS : ~is_dir(p) /\ IsUnder(root, p)}

C8_Witness ==
    /\ pc = "Searching"
    /\ config.recurse
    /\ is_dir(config.path)
    /\ \E i \in 1..Len(paths_to_grep) : paths_to_grep[i] = P_dste
    /\ \E i \in 1..Len(paths_to_grep) : paths_to_grep[i] = P_db

\* C9: the process ends only with exit code 0 or 1, and when a directory
\* listing fails during enumeration it ends with exit code 1 after writing
\* the one line "Application error: <message>" to stderr and the help text.
C9_EnumerationErrorsReported ==
    Terminated =>
        /\ exitCode \in {0, 1}
        /\ pc = "Panicked" =>
              /\ Len(Stderr) = 1
              /\ Stderr[1].fmt = "Application error: {}"
              /\ \E k \in 1..Len(output) : IsHelpText(output[k])

\* C10 as stated: no header and no match line is on stdout before the last
\* candidate has been searched, so every per-file error line precedes the
\* header.
C10_ReportAfterAllCandidates ==
    (\E k \in 1..Len(output) : output[k] = HeaderLine \/ IsMatchLine(output[k])) =>
        /\ pc \in {"Searching", "Done"}
        /\ idx > Len(paths_to_grep)
        /\ \A j, k \in 1..Len(output) :
              (IsErrorLine(output[j]) /\ output[k] = HeaderLine) => j < k

\* C10 amended: in a non-help run the header is written once, after the
\* candidate list is complete and before the first candidate is read; the
\* match line of a candidate is written as soon as that candidate has been
\* searched, so at every moment stdout holds the two banner lines, the
\* header, and the match lines of the matching candidates searched so far,
\* in enumeration order; per-file error lines come after the header.
C10_ReportStreamedInEnumerationOrder ==
    /\ pc \in {"Running", "Enumerated", "Panicked"} =>
          /\ Reads = <<>>
          /\ \A k \in 1..Len(output) : output[k] # HeaderLine /\ ~IsMatchLine(output[k])
    /\ (pc = "Searching" \/ (pc = "Done" /\ ~config.help)) =>
          /\ PathsOf(Reads) = SubSeq(paths_to_grep, 1, idx - 1)
          /\ pc = "Done" => idx = Len(paths_to_grep) + 1
          /\ Len(Stdout) >= 3
          /\ SubSeq(Stdout, 1, 3)
                = << Out("stdout", "Searching for {}", "", config.query),
                     Out("stdout", "In Path {}", "", config.path),
                     HeaderLine >>
          /\ SubSeq(Stdout, 4, Len(Stdout))
                = [i \in 1..Len(MatchingReads(config.query, config.case_sensitive)) |->
                       MatchLine(MatchingReads(config.query, config.case_sensitive)[i].path)]
          /\ \A j, k \in 1..Len(output) :
                (IsErrorLine(output[j]) /\ output[k] = HeaderLine) => k < j

C10_Witness ==
    /\ pc = "Searching"
    /\ idx <= Len(paths_to_grep)
    /\ \E j, k \in 1..Len(output) :
          /\ j < k
          /\ IsErrorLine(output[j])
          /\ IsMatchLine(output[k])

====
